---- MODULE Spec2Model ----
(***************************************************************************)
(* Model of the feature-selection notebook                                 *)
(* (feature-selection-correlation-and-p-value-checkpoint.ipynb):           *)
(*   - the correlation filter (cells "data.iloc[:,1:-1]" .. "data =        *)
(*     data[selected_columns]"),                                           *)
(*   - backwardElimination,                                                *)
(*   - the accuracy computation of the trainer/evaluator.                  *)
(* Real numbers are scaled by 100: a correlation of 0.9 is 90, a p-value   *)
(* of 0.05 is 5.  Indices are 0-based as in the Python source; sequences   *)
(* are TLA+ sequences (1-based), so Python's a[k] is a[k + 1] here.        *)
(***************************************************************************)
EXTENDS Integers, Sequences, FiniteSets, TLC

\* ------------------------------------------------------------------ bounds
MaxFeatures == 3
\* largest number of columns of the matrix handed to backwardElimination
MaxVars == 3
\* largest number of rows of the test partition
MaxTest == 3
\* largest number of rows of a table that is split
MaxRows == 2
\* largest number of feature columns of the comparison run's csv
MaxCmpFeatures == 2
\* largest number of split cells executed in one kernel session
MaxSplits == 3

\* ------------------------------------------------------- program constants
\* the literal 0.9 of "if corr.iloc[i,j] >= 0.9"
Tau == 90

\* SL = 0.05
SL == 5

\* p-values a fit may report (x100): one at the level, two above it
PVals == {5, 7, 9}

\* correlation values an off-diagonal entry is drawn from (x100)
CorrVals == {89, 90, 95}

\* the numeric feature columns of the csv, in file order
FeatureNames == <<"radius_mean", "texture_mean", "perimeter_mean", "area_mean",
                  "smoothness_mean">>

\* pd.read_csv: id, diagnosis, the features, one trailing unnamed column
RawColumns(nf) == <<"id", "diagnosis">> \o SubSeq(FeatureNames, 1, nf) \o <<"Unnamed: 32">>

\* data.iloc[:,1:-1]: drops the first and the last column
DropIdAndUnnamed(raw) == SubSeq(raw, 2, Len(raw) - 1)

VARIABLES
    pc,                \* position in the notebook / function being run
    data,              \* column names of the DataFrame `data`
    corr,              \* corr = data.corr()
    columns,           \* the filter's boolean mask; in backwardElimination its
                       \* parameter `columns`, the column-name list
    i, j,              \* loop indices (of the filter, of backwardElimination)
    selected_columns,  \* data.columns[columns]
    x,                 \* backwardElimination's x: the original column number
                       \* of each column it currently holds
    numVars,           \* len(x[0]) at entry
    regressor_OLS,     \* the fit: [bound |-> FALSE] or its p-values
    maxVar,            \* max(regressor_OLS.pvalues)
    ols,               \* p-values OLS has reported, per fitted matrix
    fitX,              \* x as it was handed to the current fit
    call,              \* 1: first call, 2: the call on the first call's output
    out,               \* what the first call returned
    err,               \* the exception raised, "" if none
    run,               \* 1: with feature selection, 2: the comparison run
    y_test,            \* the test rows' true labels
    prediction,        \* svc.predict(x_test)
    cm,                \* confusion_matrix(y_test, prediction)
    sum,               \* the running sum of the diagonal
    accuracy,          \* sum / x_test.shape[0], as numerator and denominator
    csv,               \* the file read by pd.read_csv: its columns with values
    result,            \* result['diagnosis']
    x_train, x_test,   \* train_test_split's feature rows
    y_train,           \* train_test_split's training labels
    svc,               \* what svc.fit was given
    seeded,            \* the import cell (with np.random.seed) has run
    rng,               \* state of numpy's global generator: the number of
                       \* permutations drawn since it was seeded
    stream,            \* the permutations the seeded generator yields, in order
    rows,              \* number of rows of the tables that are split
    sinceSeed,         \* split cells executed since the seed cell last ran
    splits             \* the splits drawn so far

corrVars == <<data, corr, columns, i, j, selected_columns>>
beVars == <<x, numVars, regressor_OLS, maxVar, ols, fitX, call, out, err>>
evVars == <<run, y_test, prediction, cm, sum, accuracy>>
cmpVars == <<csv, result, x_train, x_test, y_train, svc>>
rngVars == <<seeded, rng, stream, rows, sinceSeed, splits>>
vars == <<pc, data, corr, columns, i, j, selected_columns,
          x, numVars, regressor_OLS, maxVar, ols, fitX, call, out, err,
          run, y_test, prediction, cm, sum, accuracy,
          csv, result, x_train, x_test, y_train, svc,
          seeded, rng, stream, rows, sinceSeed, splits>>

Unbound == [bound |-> FALSE, pvalues |-> <<>>]
BEIdle ==
    /\ x = <<>> /\ numVars = 0 /\ regressor_OLS = Unbound /\ maxVar = 0
    /\ ols = <<>> /\ fitX = <<>> /\ call = 0 /\ out = <<>> /\ err = ""
CmpIdle ==
    /\ csv = <<>> /\ result = <<>> /\ x_train = <<>> /\ x_test = <<>>
    /\ y_train = <<>> /\ svc = <<>>
RngIdle ==
    /\ seeded = FALSE /\ rng = 0 /\ stream = <<>> /\ rows = 0 /\ sinceSeed = 0
    /\ splits = <<>>
NoAccuracy == [num |-> 0, den |-> 0]
EvalIdle ==
    /\ run = 0 /\ y_test = <<>> /\ prediction = <<>> /\ cm = <<>> /\ sum = 0
    /\ accuracy = NoAccuracy

\* ------------------------------------------------------ correlation filter
Idx(n) == 0 .. (n - 1)
UpperPairs(n) == {p \in Idx(n) \X Idx(n) : p[1] < p[2]}

\* DataFrame.corr(): symmetric, diagonal 1
CorrOf(n, upper) ==
    [p \in Idx(n) \X Idx(n) |->
        IF p[1] = p[2] THEN 100
        ELSE IF p[1] < p[2] THEN upper[p] ELSE upper[<<p[2], p[1]>>]]

\* corr.shape[0]
Shape0 == Len(data)

ExceedsStrict(c, a, b) == c[<<a, b>>] > Tau
ExceedsSurvivor(c, a, b) == columns[a] /\ c[<<a, b>>] >= Tau
\* corr.iloc[i,j] >= 0.9
Exceeds(c, a, b) == c[<<a, b>>] >= Tau

InnerStartDiag(a) == a
InnerStartSkip(a) == a + 2
\* range(i+1, corr.shape[0]) starts at i+1
InnerStart(a) == a + 1

\* data.columns[columns]: the positions whose mask entry is True, in order
RECURSIVE Masked(_, _, _)
Masked(mask, k, n) ==
    IF k >= n THEN <<>>
    ELSE (IF mask[k] THEN <<k>> ELSE <<>>) \o Masked(mask, k + 1, n)

InitCorr ==
    /\ pc = "read_csv"
    /\ \E nf \in 0 .. MaxFeatures : data = RawColumns(nf)
    /\ corr = <<>>
    /\ columns = <<>>
    /\ i = 0
    /\ j = 0
    /\ selected_columns = <<>>
    /\ BEIdle
    /\ EvalIdle
    /\ CmpIdle
    /\ RngIdle

\* data = data.iloc[:,1:-1]; (label encoding); corr = data.corr()
ComputeCorr ==
    /\ pc = "read_csv"
    /\ data' = DropIdAndUnnamed(data)
    /\ \E upper \in [UpperPairs(Len(data')) -> CorrVals] :
          corr' = CorrOf(Len(data'), upper)
    /\ pc' = "mask"
    /\ UNCHANGED <<columns, i, j, selected_columns>>
    /\ UNCHANGED beVars
    /\ UNCHANGED evVars
    /\ UNCHANGED cmpVars
    /\ UNCHANGED rngVars

\* columns = np.full((corr.shape[0],), True, dtype=bool)
MaskInit ==
    /\ pc = "mask"
    /\ columns' = [k \in Idx(Shape0) |-> TRUE]
    /\ i' = 0
    /\ pc' = "outer"
    /\ UNCHANGED <<data, corr, j, selected_columns>>
    /\ UNCHANGED beVars
    /\ UNCHANGED evVars
    /\ UNCHANGED cmpVars
    /\ UNCHANGED rngVars

\* for i in range(corr.shape[0]): enter the inner loop
OuterEnter ==
    /\ pc = "outer"
    /\ i < Shape0
    /\ j' = InnerStart(i)
    /\ pc' = "inner"
    /\ UNCHANGED <<data, corr, columns, i, selected_columns>>
    /\ UNCHANGED beVars
    /\ UNCHANGED evVars
    /\ UNCHANGED cmpVars
    /\ UNCHANGED rngVars

\* the outer range is exhausted
OuterExit ==
    /\ pc = "outer"
    /\ i >= Shape0
    /\ pc' = "select"
    /\ UNCHANGED corrVars
    /\ UNCHANGED beVars
    /\ UNCHANGED evVars
    /\ UNCHANGED cmpVars
    /\ UNCHANGED rngVars

\* corr >= 0.9 and columns[j]: columns[j] = False
InnerRemove ==
    /\ pc = "inner"
    /\ j < Shape0
    /\ Exceeds(corr, i, j)
    /\ columns[j]
    /\ columns' = [columns EXCEPT ![j] = FALSE]
    /\ j' = j + 1
    /\ UNCHANGED <<pc, data, corr, i, selected_columns>>
    /\ UNCHANGED beVars
    /\ UNCHANGED evVars
    /\ UNCHANGED cmpVars
    /\ UNCHANGED rngVars

\* corr >= 0.9 but column j was removed before
InnerAlready ==
    /\ pc = "inner"
    /\ j < Shape0
    /\ Exceeds(corr, i, j)
    /\ ~columns[j]
    /\ j' = j + 1
    /\ UNCHANGED <<pc, data, corr, columns, i, selected_columns>>
    /\ UNCHANGED beVars
    /\ UNCHANGED evVars
    /\ UNCHANGED cmpVars
    /\ UNCHANGED rngVars

\* corr < 0.9
InnerBelow ==
    /\ pc = "inner"
    /\ j < Shape0
    /\ ~Exceeds(corr, i, j)
    /\ j' = j + 1
    /\ UNCHANGED <<pc, data, corr, columns, i, selected_columns>>
    /\ UNCHANGED beVars
    /\ UNCHANGED evVars
    /\ UNCHANGED cmpVars
    /\ UNCHANGED rngVars

\* the inner range is exhausted: next i
InnerExit ==
    /\ pc = "inner"
    /\ j >= Shape0
    /\ i' = i + 1
    /\ pc' = "outer"
    /\ UNCHANGED <<data, corr, columns, j, selected_columns>>
    /\ UNCHANGED beVars
    /\ UNCHANGED evVars
    /\ UNCHANGED cmpVars
    /\ UNCHANGED rngVars

\* selected_columns = data.columns[columns]; data = data[selected_columns]
SelectColumns ==
    /\ pc = "select"
    /\ selected_columns' = Masked(columns, 0, Shape0)
    /\ data' = [k \in 1 .. Len(selected_columns') |-> data[selected_columns'[k] + 1]]
    /\ pc' = "filtered"
    /\ UNCHANGED <<corr, columns, i, j>>
    /\ UNCHANGED beVars
    /\ UNCHANGED evVars
    /\ UNCHANGED cmpVars
    /\ UNCHANGED rngVars

\* ------------------------------------------- claims: correlation filter
\* the double loop has finished (the mask is final)
ScanDone == pc \in {"select", "filtered"}
\* the mask exists (line 301 has run)
MaskLive == pc \in {"outer", "inner", "select", "filtered"}
NCols == Cardinality(DOMAIN columns)

\* C1: after the double loop, column jj is marked removed iff some original
\* column ii < jj has corr[ii,jj] >= tau, whether or not ii itself was removed.
RemovedIffEarlierExceeds ==
    ScanDone =>
        \A jj \in DOMAIN columns :
            (~columns[jj]) <=> (\E ii \in 0 .. (jj - 1) : corr[<<ii, jj>>] >= Tau)

\* C1 witness: A-B and B-C meet the threshold, A-C does not; C is removed
\* because of B although B was removed earlier.
ChainRemovedViaRemoved ==
    /\ ScanDone
    /\ NCols >= 3
    /\ corr[<<0, 1>>] >= Tau /\ corr[<<1, 2>>] >= Tau /\ corr[<<0, 2>>] < Tau
    /\ ~columns[1] /\ ~columns[2]

\* C2: column 0 is retained in every state of the scan and in the output, and
\* three mutually correlated columns (0.95 each, tau = 0.9) give [T, F, F].
ColumnZeroKept ==
    MaskLive =>
        /\ NCols >= 1 => columns[0]
        /\ (ScanDone /\ NCols = 3 /\ corr[<<0, 1>>] = 95 /\ corr[<<0, 2>>] = 95
              /\ corr[<<1, 2>>] = 95)
           => columns = [k \in 0 .. 2 |-> k = 0]

\* C2 witness: the concrete three-column example has been scanned.
MutualTripleScanned ==
    /\ pc = "filtered"
    /\ NCols = 3
    /\ corr[<<0, 1>>] = 95 /\ corr[<<0, 2>>] = 95 /\ corr[<<1, 2>>] = 95
    /\ columns = [k \in 0 .. 2 |-> k = 0]
    /\ selected_columns = <<0>>

\* C3 as stated: of every pair meeting the threshold exactly one column is
\* removed and the other retained.
ExactlyOneOfPairRemoved ==
    ScanDone =>
        \A ii \in DOMAIN columns : \A jj \in DOMAIN columns :
            (ii < jj /\ corr[<<ii, jj>>] >= Tau) => (columns[ii] # columns[jj])

\* C3 amended: of every pair (ii, jj), ii < jj, meeting the threshold the
\* higher-indexed column jj is removed; ii may be removed as well.
HigherOfPairRemoved ==
    ScanDone =>
        \A ii \in DOMAIN columns : \A jj \in DOMAIN columns :
            (ii < jj /\ corr[<<ii, jj>>] >= Tau) => ~columns[jj]

\* C3 witness: a pair meeting the threshold both of whose columns are removed.
BothOfPairRemoved ==
    /\ ScanDone
    /\ \E ii \in DOMAIN columns : \E jj \in DOMAIN columns :
          ii < jj /\ corr[<<ii, jj>>] >= Tau /\ ~columns[ii] /\ ~columns[jj]

\* C4: any two distinct columns retained by the filter correlate below 0.9.
RetainedBelowThreshold ==
    pc = "filtered" =>
        \A a \in 1 .. Len(selected_columns) : \A b \in 1 .. Len(selected_columns) :
            a # b => corr[<<selected_columns[a], selected_columns[b]>>] < 90

\* C4 witness: the filter removed a column and kept at least two.
FilteredKeepsSeveral ==
    /\ pc = "filtered"
    /\ Len(selected_columns) >= 2
    /\ Len(selected_columns) < NCols
    /\ Len(data) = Len(selected_columns)

\* C5 as stated: the mask has one entry per feature column (label excluded)
\* and a feature column is removed only because of an earlier feature column,
\* never because of its correlation with the label column.
LabelExcludedFromFilter ==
    pc = "select" =>
        /\ NCols = Cardinality({k \in 1 .. Len(data) : data[k] # "diagnosis"})
        /\ \A jj \in DOMAIN columns :
              (~columns[jj]) =>
                  \E ii \in 0 .. (jj - 1) :
                      data[ii + 1] # "diagnosis" /\ corr[<<ii, jj>>] >= Tau

NextCorr ==
    \/ ComputeCorr
    \/ MaskInit
    \/ OuterEnter
    \/ OuterExit
    \/ InnerRemove
    \/ InnerAlready
    \/ InnerBelow
    \/ InnerExit
    \/ SelectColumns

SpecCorr == InitCorr /\ [][NextCorr]_vars

\* ------------------------------------------------------ backwardElimination
\* np.delete(a, k, ...) for 0 <= k < len: a without its element at index k
Delete(a, k) == SubSeq(a, 1, k) \o SubSeq(a, k + 2, Len(a))

\* max(regressor_OLS.pvalues)
MaxOf(pv) == CHOOSE m \in {pv[k] : k \in 1 .. Len(pv)} :
                 \A k \in 1 .. Len(pv) : pv[k] <= m

AboveOrEqualSL(m) == m >= SL
\* maxVar > sl
AboveSL(m) == m > SL

FitPvaluesFresh(pv) ==
    /\ pv \in [1 .. Len(x) -> PVals]
    /\ ols' = ols
\* sm.OLS(Y, x).fit().pvalues: one p-value per column of x; fitting the same
\* matrix against the same Y reports the same p-values
FitPvalues(pv) ==
    /\ pv \in [1 .. Len(x) -> PVals]
    /\ x \in DOMAIN ols => pv = ols[x]
    /\ ols' = IF x \in DOMAIN ols THEN ols ELSE (x :> pv) @@ ols

InitBE ==
    /\ pc = "be_call"
    /\ \E nv \in 0 .. MaxVars :
          /\ x = [k \in 1 .. nv |-> k]
          /\ columns = SubSeq(FeatureNames, 1, nv)
    /\ data = <<>> /\ corr = <<>> /\ i = 0 /\ j = 0 /\ selected_columns = <<>>
    /\ numVars = 0
    /\ regressor_OLS = Unbound
    /\ maxVar = 0
    /\ ols = <<>>
    /\ fitX = <<>>
    /\ call = 1
    /\ out = <<>>
    /\ err = ""
    /\ EvalIdle
    /\ CmpIdle
    /\ RngIdle

\* numVars = len(x[0])
Enter ==
    /\ pc = "be_call"
    /\ numVars' = Len(x)
    /\ i' = 0
    /\ regressor_OLS' = Unbound
    /\ pc' = "be_for"
    /\ UNCHANGED <<data, corr, columns, j, selected_columns, x, maxVar, ols, fitX,
                   call, out, err>>
    /\ UNCHANGED evVars
    /\ UNCHANGED cmpVars
    /\ UNCHANGED rngVars

\* an iteration whose fit has maxVar > sl: go on to scan the p-values
FitAbove ==
    /\ pc = "be_for"
    /\ i < numVars
    /\ x # <<>>
    /\ \E pv \in [1 .. Len(x) -> PVals] :
          /\ FitPvalues(pv)
          /\ AboveSL(MaxOf(pv))
          /\ regressor_OLS' = [bound |-> TRUE, pvalues |-> pv]
          /\ maxVar' = MaxOf(pv)
    /\ fitX' = x
    /\ j' = 0
    /\ pc' = "be_scan"
    /\ UNCHANGED <<data, corr, columns, i, selected_columns, x, numVars, call, out, err>>
    /\ UNCHANGED evVars
    /\ UNCHANGED cmpVars
    /\ UNCHANGED rngVars

\* an iteration whose fit has maxVar <= sl: nothing is removed, next i
FitNotAbove ==
    /\ pc = "be_for"
    /\ i < numVars
    /\ x # <<>>
    /\ \E pv \in [1 .. Len(x) -> PVals] :
          /\ FitPvalues(pv)
          /\ ~AboveSL(MaxOf(pv))
          /\ regressor_OLS' = [bound |-> TRUE, pvalues |-> pv]
          /\ maxVar' = MaxOf(pv)
    /\ fitX' = x
    /\ i' = i + 1
    /\ UNCHANGED <<pc, data, corr, columns, j, selected_columns, x, numVars, call, out, err>>
    /\ UNCHANGED evVars
    /\ UNCHANGED cmpVars
    /\ UNCHANGED rngVars

\* pvalues[j] == maxVar: x = np.delete(x, j, 1); columns = np.delete(columns, j)
ScanHit ==
    /\ pc = "be_scan"
    /\ j < numVars - i
    /\ j < Len(regressor_OLS.pvalues)
    /\ regressor_OLS.pvalues[j + 1] = maxVar
    /\ j < Len(x) /\ j < Len(columns)
    /\ x' = Delete(x, j)
    /\ columns' = Delete(columns, j)
    /\ j' = j + 1
    /\ UNCHANGED <<pc, data, corr, i, selected_columns, numVars, regressor_OLS, maxVar,
                   ols, fitX, call, out, err>>
    /\ UNCHANGED evVars
    /\ UNCHANGED cmpVars
    /\ UNCHANGED rngVars

\* pvalues[j] == maxVar but x (or columns) has no index j left: np.delete raises
ScanHitOutOfBounds ==
    /\ pc = "be_scan"
    /\ j < numVars - i
    /\ j < Len(regressor_OLS.pvalues)
    /\ regressor_OLS.pvalues[j + 1] = maxVar
    /\ j >= Len(x) \/ j >= Len(columns)
    /\ err' = "IndexError"
    /\ pc' = "be_raised"
    /\ UNCHANGED <<data, corr, columns, i, j, selected_columns, x, numVars,
                   regressor_OLS, maxVar, ols, fitX, call, out>>
    /\ UNCHANGED evVars
    /\ UNCHANGED cmpVars
    /\ UNCHANGED rngVars

\* pvalues[j] != maxVar
ScanMiss ==
    /\ pc = "be_scan"
    /\ j < numVars - i
    /\ j < Len(regressor_OLS.pvalues)
    /\ regressor_OLS.pvalues[j + 1] # maxVar
    /\ j' = j + 1
    /\ UNCHANGED <<pc, data, corr, columns, i, selected_columns, x, numVars,
                   regressor_OLS, maxVar, ols, fitX, call, out, err>>
    /\ UNCHANGED evVars
    /\ UNCHANGED cmpVars
    /\ UNCHANGED rngVars

\* j runs to numVars - i, past the end of this fit's p-values: pvalues[j] raises
ScanPvalueOutOfBounds ==
    /\ pc = "be_scan"
    /\ j < numVars - i
    /\ j >= Len(regressor_OLS.pvalues)
    /\ err' = "IndexError"
    /\ pc' = "be_raised"
    /\ UNCHANGED <<data, corr, columns, i, j, selected_columns, x, numVars,
                   regressor_OLS, maxVar, ols, fitX, call, out>>
    /\ UNCHANGED evVars
    /\ UNCHANGED cmpVars
    /\ UNCHANGED rngVars

\* range(0, numVars - i) is exhausted: next i
ScanEnd ==
    /\ pc = "be_scan"
    /\ j >= numVars - i
    /\ i' = i + 1
    /\ pc' = "be_for"
    /\ UNCHANGED <<data, corr, columns, j, selected_columns, x, numVars,
                   regressor_OLS, maxVar, ols, fitX, call, out, err>>
    /\ UNCHANGED evVars
    /\ UNCHANGED cmpVars
    /\ UNCHANGED rngVars

\* regressor_OLS.summary(); return x, columns
Return ==
    /\ pc = "be_for"
    /\ i >= numVars
    /\ regressor_OLS.bound
    /\ pc' = "be_returned"
    /\ UNCHANGED <<data, corr, columns, i, j, selected_columns>>
    /\ UNCHANGED beVars
    /\ UNCHANGED evVars
    /\ UNCHANGED cmpVars
    /\ UNCHANGED rngVars

\* regressor_OLS.summary() when the loop body never ran: the local is unbound
SummaryUnbound ==
    /\ pc = "be_for"
    /\ i >= numVars
    /\ ~regressor_OLS.bound
    /\ err' = "UnboundLocalError"
    /\ pc' = "be_raised"
    /\ UNCHANGED <<data, corr, columns, i, j, selected_columns, x, numVars,
                   regressor_OLS, maxVar, ols, fitX, call, out>>
    /\ UNCHANGED evVars
    /\ UNCHANGED cmpVars
    /\ UNCHANGED rngVars

\* backwardElimination(x, Y, SL, columns) called on what the first call returned
CallAgain ==
    /\ pc = "be_returned"
    /\ call = 1
    /\ out' = [x |-> x, columns |-> columns]
    /\ call' = 2
    /\ pc' = "be_call"
    /\ UNCHANGED <<data, corr, columns, i, j, selected_columns, x, numVars,
                   regressor_OLS, maxVar, ols, fitX, err>>
    /\ UNCHANGED evVars
    /\ UNCHANGED cmpVars
    /\ UNCHANGED rngVars

\* ---------------------------------------------- claims: backwardElimination
\* index (0-based) of the first p-value equal to the maximum
FirstMaxIndex(pv) ==
    CHOOSE k \in 0 .. (Len(pv) - 1) :
        /\ pv[k + 1] = MaxOf(pv)
        /\ \A m \in 0 .. (k - 1) : pv[m + 1] # MaxOf(pv)

\* an iteration whose maximum p-value exceeded sl has just finished its scan
IterationRemoved == pc = "be_for" /\ regressor_OLS.bound /\ maxVar > SL
BETerminal == pc \in {"be_returned", "be_raised"}

\* C6 as stated: in every iteration whose maximum p-value exceeds alpha exactly
\* one column is removed from x (and its name from the name list): the
\* lowest-index column whose p-value equals the maximum, ties included.
OneRemovedPerIteration ==
    IterationRemoved =>
        /\ x = Delete(fitX, FirstMaxIndex(regressor_OLS.pvalues))
        /\ Len(columns) = Len(fitX) - 1

\* C7 as stated: calling backwardElimination on its own output completes
\* normally and returns the same x and the same names.
IdempotentOnOutput ==
    (call = 2 /\ BETerminal) =>
        /\ pc = "be_returned"
        /\ x = out.x
        /\ columns = out.columns

\* the second call fails only on an output without columns
SecondCallFailsOnlyOnEmpty ==
    (call = 2 /\ BETerminal /\ out.x # <<>>) =>
        /\ pc = "be_returned"
        /\ x = out.x
        /\ columns = out.columns

\* C8 as stated: called with a matrix of no columns, backwardElimination fits
\* nothing, raises nothing and returns x and the names unchanged.
EmptyInputIsNoOp ==
    (call = 1 /\ pc \in {"be_for", "be_scan", "be_returned", "be_raised"}
        /\ numVars = 0) =>
        /\ pc # "be_raised"
        /\ ~regressor_OLS.bound
        /\ x = <<>> /\ columns = <<>>
        /\ fitX = <<>>

\* C9 as stated: on an input with at least one column the returned matrix has
\* at least one column.
ReturnsAtLeastOneColumn ==
    (pc = "be_returned" /\ call = 1 /\ numVars >= 1) => Len(x) >= 1

\* C9 amended: on an input with at least one column, whenever the call
\* returns, the returned matrix has at least one column exactly when the last
\* fit's maximum p-value is <= sl; a single remaining column whose p-value
\* exceeds sl is removed, leaving no column.
ReturnedNonEmptyIffConverged ==
    (pc = "be_returned" /\ numVars >= 1) => ((Len(x) >= 1) <=> (maxVar <= SL))

\* C9 witness: a call on a matrix with columns has returned one with none,
\* the last of them removed by a one-column fit.
LastColumnRemoved ==
    /\ pc = "be_returned"
    /\ call = 1
    /\ numVars >= 1
    /\ Len(fitX) = 1
    /\ maxVar > SL
    /\ x = <<>>

\* the last fit of the running call had a maximum p-value <= sl
Converged == pc \in {"be_for", "be_returned"} /\ regressor_OLS.bound /\ maxVar <= SL

\* C13: once an iteration's maximum p-value is <= sl, no column is removed in
\* that or any later iteration of the call, nothing is raised, and x and the
\* name list stay the ones held at that iteration up to and at the return.
ConvergedStays ==
    [][(Converged /\ call' = call)
          => (Converged' /\ x' = x /\ columns' = columns)]_vars

\* C13 witness: a call on three columns removed one, converged on the second
\* fit, refitted in the remaining iteration and returned the two columns.
ConvergedBeforeLastIteration ==
    /\ pc = "be_returned"
    /\ call = 1
    /\ numVars = 3
    /\ maxVar <= SL
    /\ Len(x) = 2
    /\ x = fitX

\* the name list is parallel to x: as long, its k-th entry the original name
\* of the column at position k, the columns in original relative order
NamesFollowX ==
    /\ Len(columns) = Len(x)
    /\ \A k \in 1 .. Len(x) : columns[k] = FeatureNames[x[k]]
    /\ \A k \in 1 .. (Len(x) - 1) : x[k] < x[k + 1]
NamesFollowXAlways ==
    pc \in {"be_call", "be_for", "be_scan", "be_returned", "be_raised"} => NamesFollowX

\* C14 as stated: every removal deletes the same index j from x and from the
\* name list, leaves the name list parallel to x, and that index names the
\* same column in the p-value vector (the fitted matrix) and in x.
LockstepRemoval ==
    [][(pc = "be_scan" /\ Len(x') < Len(x))
          => /\ x' = Delete(x, j)
             /\ columns' = Delete(columns, j)
             /\ NamesFollowX'
             /\ x[j + 1] = fitX[j + 1]]_vars

\* C15 as stated: on an input with at least one column the call makes at most
\* numVars fits, never indexes the p-values or x out of range, and raises
\* nothing on its way to the return.
TerminatesNormally ==
    (call = 1 /\ numVars >= 1) =>
        /\ pc # "be_raised"
        /\ i <= numVars
        /\ pc = "be_scan" => j <= Len(regressor_OLS.pvalues)

NextBE ==
    \/ Enter
    \/ FitAbove
    \/ FitNotAbove
    \/ ScanHit
    \/ ScanHitOutOfBounds
    \/ ScanMiss
    \/ ScanPvalueOutOfBounds
    \/ ScanEnd
    \/ Return
    \/ SummaryUnbound
    \/ CallAgain

SpecBE == InitBE /\ [][NextBE]_vars

\* the fit is never handed a matrix without columns
FitNeverEmpty == (pc = "be_for" /\ i < numVars) => x # <<>>
\* x and the name list stay equally long
SameLength == pc \in {"be_call", "be_for", "be_scan", "be_returned", "be_raised"}
                 => Len(x) = Len(columns)

\* ------------------------------------------------------ trainer / evaluator
\* the classes in sorted order: the encoded labels of the run with feature
\* selection, the csv's strings in the comparison run
ClassOrder(r) == IF r = 1 THEN <<0, 1>> ELSE <<"B", "M">>
Classes(r) == {ClassOrder(r)[k] : k \in 1 .. Len(ClassOrder(r))}

Occurs(c, s) == \E k \in 1 .. Len(s) : s[k] = c
IsPresent(yt, yp, c) == Occurs(c, yt) \/ Occurs(c, yp)

\* the sorted labels that occur in y_true or y_pred
RECURSIVE UniqueLabels(_, _, _)
UniqueLabels(yt, yp, order) ==
    IF order = <<>> THEN <<>>
    ELSE (IF IsPresent(yt, yp, Head(order)) THEN <<Head(order)>> ELSE <<>>)
            \o UniqueLabels(yt, yp, Tail(order))

\* sklearn.metrics.confusion_matrix: entry [a][b] counts the rows whose true
\* label is the a-th and whose predicted label is the b-th label
ConfusionMatrix(yt, yp, order) ==
    LET labs == UniqueLabels(yt, yp, order)
    IN  [a \in 0 .. (Len(labs) - 1) |->
            [b \in 0 .. (Len(labs) - 1) |->
                Cardinality({r \in 1 .. Len(yt) :
                                yt[r] = labs[a + 1] /\ yp[r] = labs[b + 1]})]]

DiagEntryFirstRow(m, k) == m[0][k]
\* cm[i][i]
DiagEntry(m, k) == m[k][k]

\* cm.shape[0]
CmShape0 == Cardinality(DOMAIN cm)
\* x_test.shape[0]: train_test_split keeps features and labels row-aligned
XTestShape0 == Len(y_test)

InitEval ==
    /\ pc = "ev_predict"
    /\ run \in {1, 2}
    /\ \E n \in 1 .. MaxTest : y_test \in [1 .. n -> Classes(run)]
    /\ prediction = <<>>
    /\ cm = <<>>
    /\ sum = 0
    /\ accuracy = NoAccuracy
    /\ data = <<>> /\ corr = <<>> /\ columns = <<>> /\ i = 0 /\ j = 0
    /\ selected_columns = <<>>
    /\ BEIdle
    /\ CmpIdle
    /\ RngIdle

\* prediction = svc.predict(x_test): one class per test row
Predict ==
    /\ pc = "ev_predict"
    /\ prediction' \in [1 .. XTestShape0 -> Classes(run)]
    /\ pc' = "ev_cm"
    /\ UNCHANGED <<run, y_test, cm, sum, accuracy>>
    /\ UNCHANGED corrVars
    /\ UNCHANGED beVars
    /\ UNCHANGED cmpVars
    /\ UNCHANGED rngVars

\* cm = confusion_matrix(y_test, prediction); sum = 0
BuildConfusion ==
    /\ pc = "ev_cm"
    /\ cm' = ConfusionMatrix(y_test, prediction, ClassOrder(run))
    /\ sum' = 0
    /\ i' = 0
    /\ pc' = "ev_sum"
    /\ UNCHANGED <<run, y_test, prediction, accuracy>>
    /\ UNCHANGED <<data, corr, columns, j, selected_columns>>
    /\ UNCHANGED beVars
    /\ UNCHANGED cmpVars
    /\ UNCHANGED rngVars

\* for i in range(cm.shape[0]): sum += cm[i][i]
SumDiagonal ==
    /\ pc = "ev_sum"
    /\ i < CmShape0
    /\ sum' = sum + DiagEntry(cm, i)
    /\ i' = i + 1
    /\ UNCHANGED <<pc, run, y_test, prediction, cm, accuracy>>
    /\ UNCHANGED <<data, corr, columns, j, selected_columns>>
    /\ UNCHANGED beVars
    /\ UNCHANGED cmpVars
    /\ UNCHANGED rngVars

\* accuracy = sum/x_test.shape[0]
ComputeAccuracy ==
    /\ pc = "ev_sum"
    /\ i >= CmShape0
    /\ accuracy' = [num |-> sum, den |-> XTestShape0]
    /\ pc' = "ev_done"
    /\ UNCHANGED <<run, y_test, prediction, cm, sum>>
    /\ UNCHANGED corrVars
    /\ UNCHANGED beVars
    /\ UNCHANGED cmpVars
    /\ UNCHANGED rngVars

\* --------------------------------------------- claims: trainer / evaluator
Matches == {r \in 1 .. Len(y_test) : prediction[r] = y_test[r]}

\* C10: in both runs accuracy = (diagonal sum) / (test rows) is the fraction of
\* test rows whose prediction equals the true label, lies in [0, 1], and is 1
\* exactly when every prediction matches.
AccuracyIsMatchFraction ==
    pc = "ev_done" =>
        /\ accuracy.den = Len(y_test)
        /\ accuracy.den > 0
        /\ accuracy.num = Cardinality(Matches)
        /\ 0 <= accuracy.num /\ accuracy.num <= accuracy.den
        /\ (accuracy.num = accuracy.den)
              <=> (\A r \in 1 .. Len(y_test) : prediction[r] = y_test[r])

\* C10 witness: the comparison run has computed an accuracy strictly between
\* 0 and 1 from a two-class confusion matrix.
PartlyCorrectEvaluated ==
    /\ pc = "ev_done"
    /\ run = 2
    /\ CmShape0 = 2
    /\ 0 < accuracy.num /\ accuracy.num < accuracy.den

NextEval ==
    \/ Predict
    \/ BuildConfusion
    \/ SumDiagonal
    \/ ComputeAccuracy

SpecEval == InitEval /\ [][NextEval]_vars

\* ------------------------------------------------------- train_test_split
\* np.random.seed(123): the generator restarts its stream
SeedStateStale == rng
SeedState == 0

RowPermutations(n) ==
    {q \in [1 .. n -> 1 .. n] : \A a \in 1 .. n : \A b \in 1 .. n : a # b => q[a] # q[b]}

\* rng.permutation(n) on numpy's global generator: the next permutation of the
\* seeded stream; the same position of the stream always yields the same one
DrawPermutation(perm, n) ==
    /\ perm \in RowPermutations(n)
    /\ rng < Len(stream) => perm = stream[rng + 1]
    /\ stream' = IF rng < Len(stream) THEN stream ELSE Append(stream, perm)
    /\ rng' = rng + 1

\* n_test = ceil(test_size * n) for test_size = 0.2
NTest(n) == (2 * n + 9) \div 10

\* ShuffleSplit: the first n_test entries of the permutation are the test
\* rows, the others the training rows
TrainTestSplit(perm, n) ==
    [test |-> SubSeq(perm, 1, NTest(n)), train |-> SubSeq(perm, NTest(n) + 1, n)]

InitSplit ==
    /\ pc = "kernel"
    /\ seeded = FALSE
    /\ rng = 0
    /\ stream = <<>>
    /\ rows \in 2 .. MaxRows
    /\ sinceSeed = 0
    /\ splits = <<>>
    /\ data = <<>> /\ corr = <<>> /\ columns = <<>> /\ i = 0 /\ j = 0
    /\ selected_columns = <<>>
    /\ BEIdle
    /\ EvalIdle
    /\ CmpIdle

\* the import cell: np.random.seed(123)
SeedCell ==
    /\ pc = "kernel"
    /\ seeded' = TRUE
    /\ rng' = SeedState
    /\ sinceSeed' = 0
    /\ UNCHANGED <<pc, stream, rows, splits>>
    /\ UNCHANGED corrVars
    /\ UNCHANGED beVars
    /\ UNCHANGED evVars
    /\ UNCHANGED cmpVars

\* a split cell: train_test_split(data.values, result.values, test_size = 0.2)
SplitCell(cell) ==
    /\ pc = "kernel"
    /\ seeded
    /\ Len(splits) < MaxSplits
    /\ \E perm \in RowPermutations(rows) :
          /\ DrawPermutation(perm, rows)
          /\ splits' = Append(splits,
                 [cell |-> cell, nth |-> sinceSeed,
                  test |-> TrainTestSplit(perm, rows).test,
                  train |-> TrainTestSplit(perm, rows).train])
    /\ sinceSeed' = sinceSeed + 1
    /\ UNCHANGED <<pc, seeded, rows>>
    /\ UNCHANGED corrVars
    /\ UNCHANGED beVars
    /\ UNCHANGED evVars
    /\ UNCHANGED cmpVars

\* the split of the run with feature selection
SplitSelected == SplitCell(36)
\* the split of the comparison run
SplitComparison == SplitCell(44)

NextSplit ==
    \/ SeedCell
    \/ SplitSelected
    \/ SplitComparison

SpecSplit == InitSplit /\ [][NextSplit]_vars

\* ------------------------------------------------------ the comparison run
\* values a numeric feature cell is drawn from, in ascending order
FeatureVals == <<10, 20>>
\* the two diagnosis strings, in lexical order
DiagnosisVals == <<"B", "M">>
SeqRange(q) == {q[k] : k \in 1 .. Len(q)}

\* np.unique's sort order for a column of the given dtype
SortOrder(dtype) == IF dtype = "object" THEN DiagnosisVals ELSE FeatureVals

IndexOf(q, v) == CHOOSE k \in 1 .. Len(q) : q[k] = v

\* LabelEncoder().fit_transform(values): each value's index among the sorted
\* distinct values of the column
LabelEncode(values, dtype) ==
    LET classes == UniqueLabels(values, values, SortOrder(dtype))
    IN  [k \in 1 .. Len(values) |-> IndexOf(classes, values[k]) - 1]

\* DataFrame.iloc[:, a:b] with 0-based a and b counted as Python slices do
ILocColumns(df, a, b) == SubSeq(df, a + 1, b)

\* df.values[r]: row r across the columns
RowOf(df, r) == [c \in 1 .. Len(df) |-> df[c].values[r]]
\* the rows of df.values picked by a sequence of row numbers
RowsAt(df, idx) == [k \in 1 .. Len(idx) |-> RowOf(df, idx[k])]

\* the csv files of n rows and nf feature columns
CsvFiles(n, nf) ==
    {<<[name |-> "id", dtype |-> "int64", values |-> [r \in 1 .. n |-> r]],
       [name |-> "diagnosis", dtype |-> "object", values |-> d]>>
     \o [c \in 1 .. nf |->
            [name |-> FeatureNames[c], dtype |-> "float64", values |-> f[c]]]
     \o <<[name |-> "Unnamed: 32", dtype |-> "float64",
           values |-> [r \in 1 .. n |-> "nan"]]>> :
       d \in [1 .. n -> SeqRange(DiagnosisVals)],
       f \in [1 .. nf -> [1 .. n -> SeqRange(FeatureVals)]]}

InitCmp ==
    /\ pc = "cmp_read"
    /\ \E n \in 2 .. MaxRows : \E nf \in 0 .. MaxCmpFeatures :
          /\ csv \in CsvFiles(n, nf)
          /\ rows = n
          \* the split of the run with feature selection has been drawn
          /\ \E first \in RowPermutations(n) : stream = <<first>>
    /\ seeded = TRUE
    /\ rng = 1
    /\ sinceSeed = 1
    /\ splits = <<>>
    /\ data = <<>>
    /\ result = <<>> /\ x_train = <<>> /\ x_test = <<>> /\ y_train = <<>>
    /\ svc = <<>>
    /\ corr = <<>> /\ columns = <<>> /\ i = 0 /\ j = 0 /\ selected_columns = <<>>
    /\ BEIdle
    /\ EvalIdle

\* data = pd.read_csv(...); result = pd.DataFrame(); result['diagnosis'] = data.iloc[:,1]
CmpRead ==
    /\ pc = "cmp_read"
    /\ data' = csv
    /\ result' = [dtype |-> csv[2].dtype, values |-> csv[2].values]
    /\ pc' = "cmp_drop"
    /\ UNCHANGED <<corr, columns, i, j, selected_columns>>
    /\ UNCHANGED <<csv, x_train, x_test, y_train, svc>>
    /\ UNCHANGED beVars
    /\ UNCHANGED evVars
    /\ UNCHANGED rngVars

\* data = data.iloc[:,2:-1]
CmpDrop ==
    /\ pc = "cmp_drop"
    /\ data' = ILocColumns(data, 2, Len(data) - 1)
    /\ pc' = "cmp_encode"
    /\ UNCHANGED <<corr, columns, i, j, selected_columns>>
    /\ UNCHANGED cmpVars
    /\ UNCHANGED beVars
    /\ UNCHANGED evVars
    /\ UNCHANGED rngVars

\* data.iloc[:,0] = label_encoder.fit_transform(data.iloc[:,0]).astype('float64')
CmpEncode ==
    /\ pc = "cmp_encode"
    /\ Len(data) >= 1
    /\ data' = [data EXCEPT ![1] = [name |-> @.name, dtype |-> "float64",
                                    values |-> LabelEncode(@.values, @.dtype)]]
    /\ pc' = "cmp_split"
    /\ UNCHANGED <<corr, columns, i, j, selected_columns>>
    /\ UNCHANGED cmpVars
    /\ UNCHANGED beVars
    /\ UNCHANGED evVars
    /\ UNCHANGED rngVars

\* data.iloc[:,0] on a frame without columns raises
CmpEncodeNoColumn ==
    /\ pc = "cmp_encode"
    /\ Len(data) = 0
    /\ err' = "IndexError"
    /\ pc' = "cmp_raised"
    /\ UNCHANGED <<x, numVars, regressor_OLS, maxVar, ols, fitX, call, out>>
    /\ UNCHANGED corrVars
    /\ UNCHANGED cmpVars
    /\ UNCHANGED evVars
    /\ UNCHANGED rngVars

\* x_train, x_test, y_train, y_test = train_test_split(data.values, result.values, test_size = 0.2)
CmpSplit ==
    /\ pc = "cmp_split"
    /\ \E perm \in RowPermutations(rows) :
          /\ DrawPermutation(perm, rows)
          /\ LET part == TrainTestSplit(perm, rows)
             IN  /\ x_train' = RowsAt(data, part.train)
                 /\ x_test' = RowsAt(data, part.test)
                 /\ y_train' = [dtype |-> result.dtype,
                                values |-> [k \in 1 .. Len(part.train) |->
                                               result.values[part.train[k]]]]
                 /\ y_test' = [dtype |-> result.dtype,
                               values |-> [k \in 1 .. Len(part.test) |->
                                              result.values[part.test[k]]]]
    /\ sinceSeed' = sinceSeed + 1
    /\ pc' = "cmp_fit"
    /\ UNCHANGED <<seeded, rows, splits>>
    /\ UNCHANGED <<csv, result, svc>>
    /\ UNCHANGED <<run, prediction, cm, sum, accuracy>>
    /\ UNCHANGED corrVars
    /\ UNCHANGED beVars

\* svc = SVC(); svc.fit(x_train, y_train)
CmpFit ==
    /\ pc = "cmp_fit"
    /\ svc' = [X |-> x_train, y |-> y_train]
    /\ pc' = "cmp_fitted"
    /\ UNCHANGED <<csv, result, x_train, x_test, y_train>>
    /\ UNCHANGED corrVars
    /\ UNCHANGED beVars
    /\ UNCHANGED evVars
    /\ UNCHANGED rngVars

\* ------------------------------------------------ claims: the comparison run
\* the feature columns of the csv: all but id, diagnosis and the unnamed one
CsvFeatures == SubSeq(csv, 3, Len(csv) - 1)
\* the training rows of the split just drawn
TrainRows == TrainTestSplit(stream[rng], rows).train

\* C11 as stated: the comparison run fits the classifier on every feature
\* column with the csv's values unchanged (only the label column is encoded),
\* and on the encoded label column as labels.
ComparisonFitsOriginalFeatures ==
    pc = "cmp_fitted" =>
        /\ Len(data) = Len(CsvFeatures)
        /\ \A c \in 1 .. Len(data) : data[c].values = CsvFeatures[c].values
        /\ svc.X = RowsAt(CsvFeatures, TrainRows)
        /\ svc.y.dtype = "float64"

\* what does hold: every feature column but the first reaches the classifier
\* unchanged, and the labels are the csv's strings
ComparisonFitsOtherFeatures ==
    pc = "cmp_fitted" =>
        /\ Len(data) = Len(CsvFeatures)
        /\ \A c \in 2 .. Len(data) : data[c].values = CsvFeatures[c].values
        /\ data[1].values = LabelEncode(CsvFeatures[1].values, "float64")
        /\ svc.X = RowsAt(data, TrainRows)
        /\ svc.y.dtype = "object"

NextCmp ==
    \/ CmpRead
    \/ CmpDrop
    \/ CmpEncode
    \/ CmpEncodeNoColumn
    \/ CmpSplit
    \/ CmpFit

SpecCmp == InitCmp /\ [][NextCmp]_vars

\* ------------------------------------------------------------ the notebook
Init == InitCorr \/ InitBE \/ InitEval \/ InitSplit \/ InitCmp
Next == NextCorr \/ NextBE \/ NextEval \/ NextSplit \/ NextCmp
Spec == Init /\ [][Next]_vars

====
